---- MODULE Spec2Model ----
(***************************************************************************)
(* Product catalog: the product service (productService.ts), the product   *)
(* form (ProductForm.tsx) and the product list (ProductList.tsx).          *)
(*                                                                         *)
(* Text is a sequence of one-character strings.  Decimal numbers (prices,  *)
(* ratings) are integers counted in tenths, so 5 is 50 and 5.1 is 51.      *)
(* An optional value (a field that may be undefined) is <<>> when it is    *)
(* undefined and <<v>> when it is v.                                       *)
(***************************************************************************)
EXTENDS Integers, Sequences, FiniteSets, TLC

VARIABLES
    db,          \* the backend table 'products': a set of rows
    issued,      \* the ids the backend has stored so far (its generator never repeats one)
    clock,       \* the client clock read by new Date()
    lastCall,    \* the most recent completed direct call of the service
    drafts,      \* history: id -> draft, for rows created and not touched since
    deleted,     \* history: ids of the products a deleteProduct removed
    \* ProductList state
    products, loading, error, filters, tempFilters,
    sameObject,  \* tempFilters and filters are one and the same object
    showAddModal, editingProduct, deletingId,
    \* ProductForm state (of the mounted form, blank when none is mounted)
    productDetails, validationError, isSaving,
    inflight     \* the requests the components have issued and not yet settled

backendVars == <<db, issued, clock>>
callVars == <<lastCall, drafts, deleted>>
listVars == <<products, loading, error, filters, tempFilters, sameObject,
              showAddModal, editingProduct, deletingId>>
formVars == <<productDetails, validationError, isSaving>>
uiVars == <<listVars, formVars, inflight>>

vars == <<backendVars, callVars, uiVars>>

---------------------------------------------------------------------------
(* Bounds *)

MaxRows == 2             \* rows the table may hold
MaxId == MaxRows         \* ids the backend may hand out
Times == {0, 1}          \* the instants the client clock shows
MaxInflight == 2         \* requests in flight at once

---------------------------------------------------------------------------
(* Values *)

Undefined == <<>>
Def(v) == <<v>>
has(o) == o # Undefined
val(o) == o[1]

\* a whole number as a count of tenths
Num(n) == n * 10

Ids == 1..MaxId

---------------------------------------------------------------------------
(* Text *)

Lower(c) == CASE c = "A" -> "a" [] c = "B" -> "b" [] OTHER -> c

\* Postgres ILIKE: % matches any run of characters, _ any one character,
\* every other character itself, ignoring case.
RECURSIVE ilike(_, _)
ilike(s, p) ==
    IF p = <<>> THEN s = <<>>
    ELSE IF Head(p) = "%"
         THEN ilike(s, Tail(p)) \/ (s # <<>> /\ ilike(Tail(s), p))
         ELSE /\ s # <<>>
              /\ (Head(p) = "_" \/ Lower(Head(p)) = Lower(Head(s)))
              /\ ilike(Tail(s), Tail(p))

\* the pattern the template `%${searchQuery}%` builds
SearchPattern(q) == <<"%">> \o q \o <<"%">>

\* case-insensitive substring: q occurs in s
Contains(s, q) ==
    \E i \in 0..(Len(s) - Len(q)) :
        \A j \in 1..Len(q) : Lower(s[i + j]) = Lower(q[j])

---------------------------------------------------------------------------
(* The backend table, as the query builder uses it *)

Row(id, o) ==
    [id |-> id, name |-> o.name, description |-> o.description,
     category |-> o.category, price |-> o.price, rating |-> o.rating,
     created_at |-> val(o.created_at)]

\* the id a generated key gets: one the table never stored
NewId(used) == CHOOSE i \in Ids \ used : \A j \in Ids \ used : i <= j

\* .insert([obj]).select().single(): a column the object gives is stored as
\* given, the id column included; a missing id is generated; a duplicate
\* key is an error.
insert(table, used, obj) ==
    LET id == IF has(obj.id) THEN val(obj.id) ELSE NewId(used)
        row == Row(id, obj)
    IN  IF \E r \in table : r.id = id
        THEN [ok |-> FALSE, data |-> Undefined, table |-> table, used |-> used]
        ELSE [ok |-> TRUE, data |-> Def(row), table |-> table \cup {row},
              used |-> used \cup {id}]

\* one row with the columns the update object gives replaced
Patched(r, u) ==
    [id |-> r.id,
     name |-> IF has(u.name) THEN val(u.name) ELSE r.name,
     description |-> IF has(u.description) THEN val(u.description) ELSE r.description,
     category |-> IF has(u.category) THEN val(u.category) ELSE r.category,
     price |-> IF has(u.price) THEN val(u.price) ELSE r.price,
     rating |-> IF has(u.rating) THEN val(u.rating) ELSE r.rating,
     created_at |-> r.created_at]

\* .single(): exactly one row, or an error
single(rows) ==
    IF Cardinality(rows) = 1
    THEN [ok |-> TRUE, data |-> Def(CHOOSE r \in rows : TRUE)]
    ELSE [ok |-> FALSE, data |-> Undefined]

\* ordered with the oldest created_at first
orderedAscending(rows) ==
    LET n == Cardinality(rows)
    IN  { s \in [1..n -> rows] :
            /\ \A i, j \in 1..n : i # j => s[i] # s[j]
            /\ \A i, j \in 1..n : i < j => s[i].created_at <= s[j].created_at }

\* the sequences that hold each row of rows once, newest created_at first;
\* rows of equal created_at come in any order
ordered(rows) ==
    LET n == Cardinality(rows)
    IN  { s \in [1..n -> rows] :
            /\ \A i, j \in 1..n : i # j => s[i] # s[j]
            /\ \A i, j \in 1..n : i < j => s[i].created_at >= s[j].created_at }

Range(s) == { s[i] : i \in 1..Len(s) }

---------------------------------------------------------------------------
(* productService *)

\* createObject with the price left out of the inserted object
createObjectNoPrice(product, now) ==
    [product EXCEPT !.created_at = Def(now), !.price = Num(0)]

\* createProduct, the object it inserts: the caller's object spread, then
\* created_at stamped
createObject(product, now) == [product EXCEPT !.created_at = Def(now)]

\* getProducts, the row test its query applies
matches(r, f) ==
    /\ (has(f.category) /\ val(f.category) # "")
          => r.category = val(f.category)
    /\ has(f.minPrice) => r.price >= val(f.minPrice)
    /\ has(f.maxPrice) => r.price <= val(f.maxPrice)
    /\ has(f.minRating) => r.rating >= val(f.minRating)
    /\ (has(f.searchQuery) /\ val(f.searchQuery) # <<>>)
          => \/ ilike(r.name, SearchPattern(val(f.searchQuery)))
             \/ ilike(r.description, SearchPattern(val(f.searchQuery)))

\* getProducts, the rows it selects; arg is the optional filters argument
selected(table, arg) ==
    IF has(arg) THEN { r \in table : matches(r, val(arg)) } ELSE table

\* getProductById
lookup(table, id) == single({ r \in table : r.id = id })

\* updateProduct, its effect on the table and its result
update(table, id, updates) ==
    LET hit == { r \in table : r.id = id }
        new == { Patched(r, updates) : r \in hit }
    IN  [table |-> (table \ hit) \cup new, result |-> single(new)]

\* deleteProduct, its effect on the table
delete(table, id) == { r \in table : r.id # id }

---------------------------------------------------------------------------
(* Direct calls of the service: each call runs from request to result in   *)
(* one step, against the table as it is; any call may fail in the backend. *)

T(str) == CASE str = "Ab" -> <<"A", "b">> [] str = "b" -> <<"b">>
            [] str = "a" -> <<"a">> [] str = "c" -> <<"c">>
            [] str = "_" -> <<"_">>
            [] str = "aB" -> <<"a", "B">> [] OTHER -> <<>>

Fields(n, d, c, p, r) ==
    [name |-> n, description |-> d, category |-> c, price |-> p, rating |-> r]

\* the product fields a caller sends
ServiceDrafts ==
    { Fields(T("Ab"), T("c"), "Books", Num(12), 45),
      Fields(T("b"), T("a"), "Home", Num(5), Num(3)) }

\* the objects a caller may pass to createProduct: the fields, with or
\* without an id and a created_at of its own
WithKeys(d, id, at) ==
    [name |-> d.name, description |-> d.description, category |-> d.category,
     price |-> d.price, rating |-> d.rating, id |-> id, created_at |-> at]

ServiceProducts ==
    { WithKeys(d, Undefined, Undefined) : d \in ServiceDrafts }
    \cup { WithKeys(Fields(T("b"), T("a"), "Home", Num(5), Num(3)), Def(i), Def(0)) :
              i \in Ids }

Filter(c, lo, hi, r, q) ==
    [category |-> c, minPrice |-> lo, maxPrice |-> hi, minRating |-> r,
     searchQuery |-> q]

NoFilter == Filter(Undefined, Undefined, Undefined, Undefined, Undefined)

\* the filters argument of a direct call; Undefined is getProducts()
ServiceFilters ==
    { Undefined,
      Def(NoFilter),
      Def(Filter(Def("Books"), Undefined, Undefined, Undefined, Undefined)),
      Def(Filter(Def(""), Def(Num(12)), Undefined, Undefined, Def(<<>>))),
      Def(Filter(Undefined, Undefined, Def(Num(5)), Def(45), Undefined)),
      Def(Filter(Undefined, Undefined, Undefined, Undefined, Def(T("a")))),
      Def(Filter(Undefined, Undefined, Undefined, Undefined, Def(T("_")))),
      Def(Filter(Def("Books"), Def(Num(5)), Def(Num(12)), Def(Num(3)), Def(T("aB")))) }

Partial(n, d, c, p, r) == Fields(n, d, c, p, r)

ServiceUpdates ==
    { Partial(Def(T("b")), Undefined, Def("Home"), Undefined, Undefined) }

Call(op, arg, ok, data, gen, now) ==
    [op |-> op, arg |-> arg, ok |-> ok, data |-> data, gen |-> gen, now |-> now]

DraftOf(o) == Fields(o.name, o.description, o.category, o.price, o.rating)

Without(f, id) == [i \in DOMAIN f \ {id} |-> f[i]]

With(f, id, v) == [i \in DOMAIN f \cup {id} |-> IF i = id THEN v ELSE f[i]]

createProduct(product) ==
    /\ Ids \ issued # {}
    /\ Cardinality(db) < MaxRows
    /\ \E fails \in BOOLEAN :
         LET r == insert(db, issued, createObject(product, clock))
             gen == NewId(issued)
         IN  IF fails \/ ~r.ok
             THEN /\ lastCall' = Call("createProduct", product, FALSE, Undefined, gen, clock)
                  /\ UNCHANGED <<db, issued, drafts>>
             ELSE /\ db' = r.table
                  /\ issued' = r.used
                  /\ drafts' = With(drafts, val(r.data).id, DraftOf(product))
                  /\ lastCall' = Call("createProduct", product, TRUE, r.data, gen, clock)
    /\ UNCHANGED <<clock, deleted, uiVars>>

getProducts(arg) ==
    /\ \E fails \in BOOLEAN :
         IF fails
         THEN lastCall' = Call("getProducts", arg, FALSE, Undefined, 0, clock)
         ELSE \E data \in ordered(selected(db, arg)) :
                 lastCall' = Call("getProducts", arg, TRUE, Def(data), 0, clock)
    /\ UNCHANGED <<db, issued, clock, drafts, deleted, uiVars>>

updateProduct(id, updates) ==
    /\ \E fails \in BOOLEAN :
         LET u == update(db, id, updates)
         IN  IF fails \/ ~u.result.ok
             THEN /\ lastCall' = Call("updateProduct", <<id, updates>>, FALSE, Undefined, 0, clock)
                  /\ UNCHANGED <<db, drafts>>
             ELSE /\ db' = u.table
                  /\ drafts' = Without(drafts, id)
                  /\ lastCall' = Call("updateProduct", <<id, updates>>, TRUE, u.result.data, 0, clock)
    /\ UNCHANGED <<issued, clock, deleted, uiVars>>

deleteProduct(id) ==
    /\ \E fails \in BOOLEAN :
         IF fails
         THEN /\ lastCall' = Call("deleteProduct", id, FALSE, Undefined, 0, clock)
              /\ UNCHANGED <<db, drafts, deleted>>
         ELSE /\ db' = delete(db, id)
              /\ drafts' = Without(drafts, id)
              /\ deleted' = IF \E r \in db : r.id = id THEN deleted \cup {id} ELSE deleted
              /\ lastCall' = Call("deleteProduct", id, TRUE, Undefined, 0, clock)
    /\ UNCHANGED <<issued, clock, uiVars>>

getProductById(id) ==
    /\ \E fails \in BOOLEAN :
         LET r == lookup(db, id)
         IN  IF fails \/ ~r.ok
             THEN lastCall' = Call("getProductById", id, FALSE, Undefined, 0, clock)
             ELSE lastCall' = Call("getProductById", id, TRUE, r.data, 0, clock)
    /\ UNCHANGED <<db, issued, clock, drafts, deleted, uiVars>>

\* time passes on the client
Tick ==
    /\ clock + 1 \in Times
    /\ clock' = clock + 1
    /\ UNCHANGED <<db, issued, callVars, uiVars>>

InitService ==
    /\ db = {}
    /\ issued = {}
    /\ clock = 0
    /\ lastCall = Call("none", Undefined, TRUE, Undefined, 0, 0)
    /\ drafts = <<>>
    /\ deleted = {}
    \* no component is mounted
    /\ products = <<>>
    /\ loading = FALSE
    /\ error = Undefined
    /\ filters = NoFilter
    /\ tempFilters = NoFilter
    /\ sameObject = FALSE
    /\ showAddModal = FALSE
    /\ editingProduct = Undefined
    /\ deletingId = Undefined
    /\ productDetails = [name |-> <<>>, description |-> <<>>, category |-> "",
                         price |-> <<>>, rating |-> <<>>]
    /\ validationError = Undefined
    /\ isSaving = FALSE
    /\ inflight = <<>>

NextService ==
    \/ \E product \in ServiceProducts : createProduct(product)
    \/ \E arg \in ServiceFilters : getProducts(arg)
    \/ \E id \in Ids, updates \in ServiceUpdates : updateProduct(id, updates)
    \/ \E id \in Ids : deleteProduct(id)
    \/ \E id \in Ids : getProductById(id)
    \/ Tick

SpecService == InitService /\ [][NextService]_vars

---------------------------------------------------------------------------
(* Text and numbers in the components *)

\* String.prototype.trim, for the blank character
RECURSIVE trimStart(_)
trimStart(s) == IF s # <<>> /\ Head(s) = " " THEN trimStart(Tail(s)) ELSE s

RECURSIVE trimEnd(_)
trimEnd(s) ==
    IF s # <<>> /\ s[Len(s)] = " " THEN trimEnd(SubSeq(s, 1, Len(s) - 1)) ELSE s

trim(s) == trimEnd(trimStart(s))

DigitChars == <<"0", "1", "2", "3", "4", "5", "6", "7", "8", "9">>
IsDigit(c) == \E d \in 1..10 : DigitChars[d] = c
DigitValue(c) == (CHOOSE d \in 1..10 : DigitChars[d] = c) - 1

RECURSIVE DigitsValue(_)
DigitsValue(ds) ==
    IF ds = <<>> THEN 0
    ELSE DigitsValue(SubSeq(ds, 1, Len(ds) - 1)) * 10 + DigitValue(ds[Len(ds)])

NaN == [nan |-> TRUE, v |-> 0]
Finite(v) == [nan |-> FALSE, v |-> v]

\* Number(text): blanks around are dropped, the empty text is 0, a decimal
\* numeral with an optional sign is its value, anything else is NaN.  The
\* value is in tenths: the texts used carry at most one decimal.
Number(text) ==
    LET t == trim(text)
        signed == t # <<>> /\ Head(t) \in {"-", "+"}
        u == IF signed THEN Tail(t) ELSE t
        dots == { i \in 1..Len(u) : u[i] = "." }
        dot == IF dots = {} THEN Len(u) + 1 ELSE CHOOSE i \in dots : TRUE
        whole == SubSeq(u, 1, dot - 1)
        frac == SubSeq(u, dot + 1, Len(u))
        abs == DigitsValue(whole) * 10 + (IF frac = <<>> THEN 0 ELSE DigitValue(frac[1]))
    IN  IF t = <<>> THEN Finite(0)
        ELSE IF \/ Cardinality(dots) > 1
                \/ \E i \in 1..Len(u) : ~IsDigit(u[i]) /\ u[i] # "."
                \/ whole \o frac = <<>>
             THEN NaN
             ELSE Finite(IF signed /\ Head(t) = "-" THEN 0 - abs ELSE abs)

RECURSIVE DigitsOf(_)
DigitsOf(w) ==
    IF w < 10 THEN <<DigitChars[w + 1]>>
    ELSE DigitsOf(w \div 10) \o <<DigitChars[(w % 10) + 1]>>

\* Number.prototype.toString of a number held in tenths
toString(n) ==
    LET a == IF n < 0 THEN 0 - n ELSE n
        digits == DigitsOf(a \div 10)
                  \o (IF a % 10 = 0 THEN <<>> ELSE <<".", DigitChars[(a % 10) + 1]>>)
    IN  IF n < 0 THEN <<"-">> \o digits ELSE digits

---------------------------------------------------------------------------
(* ProductForm: validation *)

formRules ==
    [price |-> [min |-> Num(0), message |-> "C'mon, price can't be negative!"],
     rating |-> [min |-> Num(0), max |-> Num(5),
                 message |-> "Let's stick to a rating between 0 and 5 stars"]]

NameMessage == "Hey, we need a name for this product!"
DescriptionMessage == "Mind adding a quick description?"
CategoryMessage == "Please pick a category for this item"

\* checkFormValidity with the rating's upper limit left out
checkFormValidityNoMax(details) ==
    IF trim(details.name) = <<>> THEN Def(NameMessage)
    ELSE IF trim(details.description) = <<>> THEN Def(DescriptionMessage)
    ELSE IF details.category = "" THEN Def(CategoryMessage)
    ELSE IF Number(details.price).nan \/ Number(details.price).v < formRules.price.min
         THEN Def(formRules.price.message)
    ELSE IF Number(details.rating).nan \/ Number(details.rating).v < formRules.rating.min
         THEN Def(formRules.rating.message)
    ELSE Undefined

\* checkFormValidity with the category tested before the description
checkFormValidityReordered(details) ==
    IF trim(details.name) = <<>> THEN Def(NameMessage)
    ELSE IF details.category = "" THEN Def(CategoryMessage)
    ELSE IF trim(details.description) = <<>> THEN Def(DescriptionMessage)
    ELSE IF Number(details.price).nan \/ Number(details.price).v < formRules.price.min
         THEN Def(formRules.price.message)
    ELSE IF \/ Number(details.rating).nan
            \/ Number(details.rating).v < formRules.rating.min
            \/ Number(details.rating).v > formRules.rating.max
         THEN Def(formRules.rating.message)
    ELSE Undefined

\* checkFormValidity: the message of the first rule that fails, or none
checkFormValidity(details) ==
    IF trim(details.name) = <<>> THEN Def(NameMessage)
    ELSE IF trim(details.description) = <<>> THEN Def(DescriptionMessage)
    ELSE IF details.category = "" THEN Def(CategoryMessage)
    ELSE IF Number(details.price).nan \/ Number(details.price).v < formRules.price.min
         THEN Def(formRules.price.message)
    ELSE IF \/ Number(details.rating).nan
            \/ Number(details.rating).v < formRules.rating.min
            \/ Number(details.rating).v > formRules.rating.max
         THEN Def(formRules.rating.message)
    ELSE Undefined

\* handleSubmit, the object it sends
updatedProduct(details) ==
    Fields(details.name, details.description, details.category,
           Number(details.price).v, Number(details.rating).v)

Blank == Fields(<<>>, <<>>, "", <<>>, <<>>)

\* the form's first productDetails, from its product prop
InitialDetails(product) ==
    IF has(product)
    THEN Fields(val(product).name, val(product).description, val(product).category,
                toString(val(product).price), toString(val(product).rating))
    ELSE Blank

---------------------------------------------------------------------------
(* ProductList and ProductForm.  A handler runs to its first await in one  *)
(* step, render and effects included; the backend serves a request in a    *)
(* later step and the handler's continuation runs in a third.              *)

FetchMessage == "Couldn't fetch products"
DeleteMessage == "Failed to delete product"
SaveMessage == "Failed to save product"

\* the list is on screen: neither early return of ProductList is taken
Rendered == ~loading /\ ~has(error)

\* a ProductForm is mounted
Mounted == Rendered /\ (showAddModal \/ has(editingProduct))

\* the list's controls can be used: they are on screen and no form covers
\* them (the form's backdrop is fixed over the whole viewport)
Usable == Rendered /\ ~Mounted

\* a request: captured is the filters value the caller's refreshProductList
\* closes over; alive says the form that issued it is still mounted
Request(op, arg, captured, alive) ==
    [op |-> op, arg |-> arg, captured |-> captured, alive |-> alive,
     served |-> FALSE, ok |-> FALSE, data |-> Undefined]

Orphaned(reqs) == [i \in DOMAIN reqs |-> [reqs[i] EXCEPT !.alive = FALSE]]

Remove(reqs, i) == SubSeq(reqs, 1, i - 1) \o SubSeq(reqs, i + 1, Len(reqs))

Served(reqs, i, ok, data) ==
    [reqs EXCEPT ![i].served = TRUE, ![i].ok = ok, ![i].data = data]

\* the render after a handler: a form that stays mounted keeps the state
\* the handler left it, a form that mounts starts from its product prop, a
\* form that unmounts loses its state and its requests lose their form
Render(details, message, saving, reqs) ==
    /\ productDetails' =
          IF Mounted' THEN (IF Mounted THEN details ELSE InitialDetails(editingProduct'))
          ELSE Blank
    /\ validationError' = IF Mounted' /\ Mounted THEN message ELSE Undefined
    /\ isSaving' = IF Mounted' /\ Mounted THEN saving ELSE FALSE
    /\ inflight' = IF Mounted' THEN reqs ELSE Orphaned(reqs)

\* Number(e.target.value) || undefined
NumberOrUndefined(text) ==
    IF Number(text).nan \/ Number(text).v = 0 THEN Undefined ELSE Def(Number(text).v)

\* handleFilter committing each edit at once
handleFilterCommitting(field, value) ==
    /\ Usable
    /\ tempFilters' = [tempFilters EXCEPT ![field] = value]
    /\ filters' = tempFilters'
    /\ sameObject' = FALSE
    /\ UNCHANGED <<products, loading, error, showAddModal, editingProduct,
                   deletingId, formVars, inflight, backendVars, callVars>>

handleFilter(field, value) ==
    /\ Usable
    /\ tempFilters' = [tempFilters EXCEPT ![field] = value]
    /\ sameObject' = FALSE
    /\ UNCHANGED <<products, loading, error, filters, showAddModal, editingProduct,
                   deletingId, formVars, inflight, backendVars, callVars>>

\* setFilters(tempFilters): no state change, no render and no effect when
\* filters already is that object; otherwise the effect on
\* refreshProductList runs and fetches with the new filters
applyFilters ==
    /\ Usable
    /\ IF sameObject
       THEN UNCHANGED vars
       ELSE /\ Len(inflight) < MaxInflight
            /\ filters' = tempFilters
            /\ sameObject' = TRUE
            /\ loading' = TRUE
            /\ UNCHANGED <<products, error, tempFilters, showAddModal, editingProduct,
                           deletingId, backendVars, callVars>>
            /\ Render(productDetails, validationError, isSaving,
                      Append(inflight, Request("getProducts", Def(tempFilters), NoFilter, FALSE)))

\* the Delete button of a product: disabled={deletingId === product.id}
DeleteDisabled(productId) == deletingId = Def(productId)

handleProductRemoval(productId) ==
    /\ Usable
    /\ \E i \in 1..Len(products) : products[i].id = productId
    /\ ~DeleteDisabled(productId)
    /\ \E userConfirmed \in BOOLEAN :
         IF ~userConfirmed
         THEN UNCHANGED vars
         ELSE /\ Len(inflight) < MaxInflight
              /\ deletingId' = Def(productId)
              /\ inflight' = Append(inflight, Request("deleteProduct", productId, NoFilter, FALSE))
              /\ UNCHANGED <<products, loading, error, filters, tempFilters, sameObject,
                             showAddModal, editingProduct, formVars, backendVars, callVars>>

\* the Add Product button
AddClick ==
    /\ Usable
    /\ showAddModal' = TRUE
    /\ UNCHANGED <<products, loading, error, filters, tempFilters, sameObject,
                   editingProduct, deletingId, backendVars, callVars>>
    /\ Render(productDetails, validationError, isSaving, inflight)

\* the Edit button of the i-th product shown
EditClick(i) ==
    /\ Usable
    /\ i \in 1..Len(products)
    /\ editingProduct' = Def(products[i])
    /\ UNCHANGED <<products, loading, error, filters, tempFilters, sameObject,
                   showAddModal, deletingId, backendVars, callVars>>
    /\ Render(productDetails, validationError, isSaving, inflight)

\* the form's Cancel button
onClose ==
    /\ Mounted
    /\ showAddModal' = FALSE
    /\ editingProduct' = Undefined
    /\ UNCHANGED <<products, loading, error, filters, tempFilters, sameObject,
                   deletingId, backendVars, callVars>>
    /\ Render(productDetails, validationError, isSaving, inflight)

handleChange(name, value) ==
    /\ Mounted
    /\ productDetails' = [productDetails EXCEPT ![name] = value]
    /\ UNCHANGED <<listVars, validationError, isSaving, inflight, backendVars, callVars>>

\* handleSubmit up to its await; the submit button is disabled while saving
handleSubmit ==
    /\ Mounted
    /\ ~isSaving
    /\ LET errorMsg == checkFormValidity(productDetails)
           fields == updatedProduct(productDetails)
       IN  IF has(errorMsg)
           THEN /\ validationError' = errorMsg
                /\ UNCHANGED <<isSaving, inflight>>
           ELSE /\ Len(inflight) < MaxInflight
                /\ validationError' = Undefined
                /\ isSaving' = TRUE
                /\ inflight' = Append(inflight,
                      IF has(editingProduct)
                      THEN Request("updateProduct",
                                   <<val(editingProduct).id,
                                     Partial(Def(fields.name), Def(fields.description),
                                             Def(fields.category), Def(fields.price),
                                             Def(fields.rating))>>,
                                   filters, TRUE)
                      ELSE Request("createProduct",
                                   createObject(WithKeys(fields, Undefined, Undefined), clock),
                                   filters, TRUE))
    /\ UNCHANGED <<listVars, productDetails, backendVars, callVars>>

\* the backend serves request i, a getProducts
ServeGetProducts(i) ==
    /\ i \in 1..Len(inflight)
    /\ ~inflight[i].served
    /\ inflight[i].op = "getProducts"
    /\ UNCHANGED <<listVars, formVars, backendVars, callVars>>
    /\ \E fails \in BOOLEAN :
         IF fails
         THEN inflight' = Served(inflight, i, FALSE, Undefined)
         ELSE \E data \in ordered(selected(db, inflight[i].arg)) :
                 inflight' = Served(inflight, i, TRUE, Def(data))

\* the backend serves request i, a deleteProduct
ServeDeleteProduct(i) ==
    /\ i \in 1..Len(inflight)
    /\ ~inflight[i].served
    /\ inflight[i].op = "deleteProduct"
    /\ UNCHANGED <<listVars, formVars, issued, clock, callVars>>
    /\ \E fails \in BOOLEAN :
         IF fails
         THEN /\ inflight' = Served(inflight, i, FALSE, Undefined)
              /\ UNCHANGED db
         ELSE /\ inflight' = Served(inflight, i, TRUE, Undefined)
              /\ db' = delete(db, inflight[i].arg)

\* the backend serves request i, a createProduct
ServeCreateProduct(i) ==
    /\ i \in 1..Len(inflight)
    /\ ~inflight[i].served
    /\ inflight[i].op = "createProduct"
    /\ UNCHANGED <<listVars, formVars, clock, callVars>>
    /\ \E fails \in BOOLEAN :
         IF fails \/ Ids \ issued = {} \/ Cardinality(db) >= MaxRows
         THEN /\ inflight' = Served(inflight, i, FALSE, Undefined)
              /\ UNCHANGED <<db, issued>>
         ELSE /\ inflight' = Served(inflight, i, TRUE, insert(db, issued, inflight[i].arg).data)
              /\ db' = insert(db, issued, inflight[i].arg).table
              /\ issued' = insert(db, issued, inflight[i].arg).used

\* the backend serves request i, an updateProduct
ServeUpdateProduct(i) ==
    /\ i \in 1..Len(inflight)
    /\ ~inflight[i].served
    /\ inflight[i].op = "updateProduct"
    /\ UNCHANGED <<listVars, formVars, issued, clock, callVars>>
    /\ \E fails \in BOOLEAN :
         LET u == update(db, inflight[i].arg[1], inflight[i].arg[2])
         IN  IF fails \/ ~u.result.ok
             THEN /\ inflight' = Served(inflight, i, FALSE, Undefined)
                  /\ UNCHANGED db
             ELSE /\ inflight' = Served(inflight, i, TRUE, u.result.data)
                  /\ db' = u.table

\* refreshProductList after its await
refreshSettled(i) ==
    /\ i \in 1..Len(inflight)
    /\ inflight[i].served
    /\ UNCHANGED <<backendVars, callVars>>
    /\ inflight[i].op = "getProducts"
    /\ IF inflight[i].ok
       THEN /\ products' = val(inflight[i].data)
            /\ error' = Undefined
       ELSE /\ error' = Def(FetchMessage)
            /\ UNCHANGED products
    /\ loading' = FALSE
    /\ UNCHANGED <<filters, tempFilters, sameObject, showAddModal, editingProduct, deletingId>>
    /\ Render(productDetails, validationError, isSaving, Remove(inflight, i))

\* Keep leaving the list as it is
KeepAll(s, id) == s

Keep(s, id) ==
    LET Other(r) == r.id # id IN SelectSeq(s, Other)

\* handleProductRemoval after its await
removalSettled(i) ==
    /\ i \in 1..Len(inflight)
    /\ inflight[i].served
    /\ UNCHANGED <<backendVars, callVars>>
    /\ inflight[i].op = "deleteProduct"
    /\ IF inflight[i].ok
       THEN /\ products' = Keep(products, inflight[i].arg)
            /\ error' = Undefined
       ELSE /\ error' = Def(DeleteMessage)
            /\ UNCHANGED products
    /\ deletingId' = Undefined
    /\ UNCHANGED <<loading, filters, tempFilters, sameObject, showAddModal, editingProduct>>
    /\ Render(productDetails, validationError, isSaving, Remove(inflight, i))

\* handleSubmit after its await: onSuccess is the refreshProductList of the
\* render the form was submitted in, onClose closes the modal; the setters
\* of a form that is no longer mounted do nothing
submitSettled(i) ==
    /\ i \in 1..Len(inflight)
    /\ inflight[i].served
    /\ UNCHANGED <<backendVars, callVars>>
    /\ inflight[i].op \in {"createProduct", "updateProduct"}
    /\ IF inflight[i].ok
       THEN /\ loading' = TRUE
            /\ showAddModal' = FALSE
            /\ editingProduct' = Undefined
            /\ UNCHANGED <<products, error, filters, tempFilters, sameObject, deletingId>>
            /\ Render(productDetails, validationError, FALSE,
                      Append(Remove(inflight, i),
                             Request("getProducts", Def(inflight[i].captured), NoFilter, FALSE)))
       ELSE /\ UNCHANGED listVars
            /\ Render(productDetails,
                      IF inflight[i].alive THEN Def(SaveMessage) ELSE validationError,
                      IF inflight[i].alive THEN FALSE ELSE isSaving,
                      Remove(inflight, i))

---------------------------------------------------------------------------
(* The application: a catalog of two products, ProductList just mounted    *)
(* and its first fetch on the way                                          *)

SeedCatalog ==
    { Row(1, WithKeys(Fields(T("Ab"), T("c"), "Books", Num(12), 45), Undefined, Def(0))),
      Row(2, WithKeys(Fields(T("b"), T("a"), "Home", Num(5), Num(3)), Undefined, Def(1))) }

NoCalls ==
    /\ lastCall = Call("none", Undefined, TRUE, Undefined, 0, 0)
    /\ drafts = <<>>
    /\ deleted = {}

\* ProductList just mounted over the given table, its first fetch on the way
Mounting(table) ==
    /\ db = table
    /\ issued = { r.id : r \in table }
    /\ clock = 1
    /\ NoCalls
    /\ products = <<>>
    /\ loading = TRUE
    /\ error = Undefined
    /\ filters = NoFilter
    /\ tempFilters = NoFilter
    /\ sameObject = FALSE
    /\ showAddModal = FALSE
    /\ editingProduct = Undefined
    /\ deletingId = Undefined
    /\ productDetails = Blank
    /\ validationError = Undefined
    /\ isSaving = FALSE
    /\ inflight = <<Request("getProducts", Def(NoFilter), NoFilter, FALSE)>>

InitUI == Mounting(SeedCatalog)

Slots == 1..MaxInflight

\* The form examined by itself: the list has loaded a catalog of one
\* product, the form is open to add a product or to edit the one shown, and
\* the user has typed some text into each field.
FormCatalog ==
    { Row(1, WithKeys(Fields(T("Ab"), T("c"), "Books", Num(12), 45), Undefined, Def(0))) }

FormNames == { <<>>, <<" ">>, <<"a", " ">> }
FormDescriptions == { <<>>, <<" ", " ">>, <<" ", "d">> }
FormCategories == { "", "Books" }
FormPrices == { <<>>, <<"-", "1">>, <<"x">>, <<"5">>, <<"-", "0", ".", "1">> }
FormRatings == { <<>>, <<"0">>, <<"5">>, <<"5", ".", "1">>, <<"-", "0", ".", "1">>,
                 <<"x">>, <<"4", ".", "5">> }

FormInputs ==
    { Fields(n, d, c, p, r) :
        n \in FormNames, d \in FormDescriptions, c \in FormCategories,
        p \in FormPrices, r \in FormRatings }

InitForm ==
    /\ db = FormCatalog
    /\ issued = {1}
    /\ clock = 1
    /\ NoCalls
    /\ products \in ordered(FormCatalog)
    /\ loading = FALSE
    /\ error = Undefined
    /\ filters = NoFilter
    /\ tempFilters = NoFilter
    /\ sameObject = FALSE
    /\ \/ showAddModal = TRUE /\ editingProduct = Undefined
       \/ showAddModal = FALSE /\ editingProduct = Def(products[1])
    /\ deletingId = Undefined
    /\ productDetails \in FormInputs
    /\ validationError = Undefined
    /\ isSaving = FALSE
    /\ inflight = <<>>

NextForm ==
    \/ handleSubmit
    \/ onClose
    \/ \E i \in Slots : ServeCreateProduct(i)
    \/ \E i \in Slots : ServeUpdateProduct(i)
    \/ \E i \in Slots : ServeGetProducts(i)
    \/ \E i \in Slots : submitSettled(i)
    \/ \E i \in Slots : refreshSettled(i)

SpecForm == InitForm /\ [][NextForm]_vars

\* List and form examined together over a catalog of one product: the user
\* picks a category filter, deletes the product, opens the form to add or
\* to edit and moves the product to the category Home
ListEdits == { <<"category", "Home">> }

CategoryOptions == { "Home" }

NextList ==
    \/ \E c \in CategoryOptions : handleFilter("category", Def(c))
    \/ applyFilters
    \/ \E id \in Ids : handleProductRemoval(id)
    \/ AddClick
    \/ \E i \in 1..MaxRows : EditClick(i)
    \/ onClose
    \/ \E e \in ListEdits : handleChange(e[1], e[2])
    \/ handleSubmit
    \/ \E i \in Slots : ServeGetProducts(i)
    \/ \E i \in Slots : ServeUpdateProduct(i)
    \/ \E i \in Slots : ServeDeleteProduct(i)
    \/ \E i \in Slots : refreshSettled(i)
    \/ \E i \in Slots : submitSettled(i)
    \/ \E i \in Slots : removalSettled(i)

InitList == Mounting(FormCatalog)

SpecList == InitList /\ [][NextList]_vars

\* The filter controls examined: no form is opened
SearchTexts == { T("a") }
FilterCategories == { "Home" }
NumberTexts == { <<"0">>, <<"5">> }

NextFilter ==
    \/ \E text \in SearchTexts : handleFilter("searchQuery", Def(text))
    \/ \E c \in FilterCategories : handleFilter("category", Def(c))
    \/ \E text \in NumberTexts : handleFilter("minPrice", NumberOrUndefined(text))
    \/ \E text \in NumberTexts : handleFilter("maxPrice", NumberOrUndefined(text))
    \/ \E text \in NumberTexts : handleFilter("minRating", NumberOrUndefined(text))
    \/ applyFilters
    \/ \E id \in Ids : handleProductRemoval(id)
    \/ \E i \in Slots : ServeGetProducts(i)
    \/ \E i \in Slots : ServeDeleteProduct(i)
    \/ \E i \in Slots : refreshSettled(i)
    \/ \E i \in Slots : removalSettled(i)

SpecFilter == InitUI /\ [][NextFilter]_vars

---------------------------------------------------------------------------
(* Claims about the service *)

\* what the filter contract asks of a row: every field that is given (an
\* empty text counts as not given) holds, the search text being contained,
\* ignoring case, in the name or in the description
Satisfies(r, arg) ==
    has(arg) =>
        LET f == val(arg)
        IN  /\ (has(f.category) /\ val(f.category) # "") => r.category = val(f.category)
            /\ has(f.minPrice) => r.price >= val(f.minPrice)
            /\ has(f.maxPrice) => r.price <= val(f.maxPrice)
            /\ has(f.minRating) => r.rating >= val(f.minRating)
            /\ (has(f.searchQuery) /\ val(f.searchQuery) # <<>>)
                  => \/ Contains(r.name, val(f.searchQuery))
                     \/ Contains(r.description, val(f.searchQuery))

\* C1: getProducts(filter) returns exactly the stored products that satisfy
\* every present field of the filter, the search text being a
\* case-insensitive substring of the name or of the description.
C1_FilterContract ==
    (lastCall.op = "getProducts" /\ lastCall.ok)
        => Range(val(lastCall.data)) = { r \in db : Satisfies(r, lastCall.arg) }

\* C2: once deleteProduct(id) has succeeded, no later getProducts result
\* holds a product of that id and getProductById(id) fails, whatever calls
\* follow.
C2_DeletedStaysGone ==
    \A id \in deleted :
        /\ ~lookup(db, id).ok
        /\ \A arg \in ServiceFilters : \A r \in selected(db, arg) : r.id # id

\* C3: a product created from draft d and neither updated nor deleted since
\* is returned by getProductById with the name, description, category,
\* price and rating of d.
C3_RoundTrip ==
    /\ \A id \in DOMAIN drafts :
          /\ lookup(db, id).ok
          /\ DraftOf(val(lookup(db, id).data)) = drafts[id]
    /\ (lastCall.op = "getProductById" /\ lastCall.ok /\ lastCall.arg \in DOMAIN drafts)
          => DraftOf(val(lastCall.data)) = drafts[lastCall.arg]

\* a created product was read back by getProductById while another product
\* was stored beside it
C3_Witness ==
    /\ lastCall.op = "getProductById"
    /\ lastCall.ok
    /\ lastCall.arg \in DOMAIN drafts
    /\ Cardinality(db) = 2

\* C4: the id and the created_at of a record createProduct stored are the
\* ones the backend generated and the service stamped, never the caller's.
C4_ServerAssigned ==
    (lastCall.op = "createProduct" /\ lastCall.ok)
        => /\ val(lastCall.data).id = lastCall.gen
           /\ val(lastCall.data).created_at = lastCall.now

---------------------------------------------------------------------------
(* Claims about the form *)

SaveOps == { "createProduct", "updateProduct" }

Saves(reqs) == { i \in DOMAIN reqs : reqs[i].op \in SaveOps }

\* the fields a save request carries
Sent(req) ==
    IF req.op = "createProduct" THEN DraftOf(req.arg)
    ELSE Fields(val(req.arg[2].name), val(req.arg[2].description),
                val(req.arg[2].category), val(req.arg[2].price), val(req.arg[2].rating))

\* what the form's rules ask of the field texts
Acceptable(details) ==
    /\ trim(details.name) # <<>>
    /\ trim(details.description) # <<>>
    /\ details.category # ""
    /\ ~Number(details.price).nan
    /\ Number(details.price).v >= Num(0)
    /\ ~Number(details.rating).nan
    /\ Number(details.rating).v >= Num(0)
    /\ Number(details.rating).v <= Num(5)

\* a submission was turned down in this step: a validation message appeared
Rejected ==
    /\ validationError' # validationError
    /\ has(validationError')
    /\ val(validationError') # SaveMessage

\* C5: a step that issues a createProduct or an updateProduct starts from
\* field texts that pass every rule, and the request carries a price of at
\* least 0 and a rating from 0 to 5; a step that turns a submission down
\* issues no request at all.
C5_ValidatedBeforeSave ==
    [][ /\ Cardinality(Saves(inflight')) > Cardinality(Saves(inflight))
            => /\ Acceptable(productDetails)
               /\ \A i \in Saves(inflight') :
                     /\ Sent(inflight'[i]).price >= Num(0)
                     /\ Sent(inflight'[i]).rating >= Num(0)
                     /\ Sent(inflight'[i]).rating <= Num(5)
        /\ Rejected => inflight' = inflight
        /\ (Mounted /\ ~Acceptable(productDetails))
            => Cardinality(Saves(inflight')) <= Cardinality(Saves(inflight)) ]_vars

\* an update with the rating at its upper limit, 5, is on its way
C5_Witness ==
    \E i \in DOMAIN inflight :
        /\ inflight[i].op = "updateProduct"
        /\ ~inflight[i].served
        /\ Sent(inflight[i]).rating = Num(5)
        /\ Sent(inflight[i]).price = Num(0)

\* the rules in their order: whether rule k fails, and its message
RuleFails(k, details) ==
    CASE k = 1 -> trim(details.name) = <<>>
      [] k = 2 -> trim(details.description) = <<>>
      [] k = 3 -> details.category = ""
      [] k = 4 -> Number(details.price).nan \/ Number(details.price).v < Num(0)
      [] k = 5 -> \/ Number(details.rating).nan
                  \/ Number(details.rating).v < Num(0)
                  \/ Number(details.rating).v > Num(5)

RuleMessage(k) ==
    CASE k = 1 -> NameMessage
      [] k = 2 -> DescriptionMessage
      [] k = 3 -> CategoryMessage
      [] k = 4 -> formRules.price.message
      [] k = 5 -> formRules.rating.message

Rules == 1..5

\* C6: the message a turned-down submission shows is the message of the
\* lowest-numbered rule that fails on the field texts, whatever other rules
\* fail with it.
C6_FirstFailingRule ==
    [][ Rejected
            => \E k \in Rules :
                  /\ RuleFails(k, productDetails)
                  /\ \A j \in 1..(k - 1) : ~RuleFails(j, productDetails)
                  /\ validationError' = Def(RuleMessage(k)) ]_vars

\* the description, the category and the rating all fail, and the message
\* shown is the description's
C6_Witness ==
    /\ Mounted
    /\ validationError = Def(DescriptionMessage)
    /\ trim(productDetails.name) # <<>>
    /\ productDetails.category = ""
    /\ Number(productDetails.rating).nan

---------------------------------------------------------------------------
(* Claims about the list *)

Fetches(reqs) == { i \in DOMAIN reqs : reqs[i].op = "getProducts" }

\* the request a fetch with filter f puts on its way
Fetch(f) == Request("getProducts", Def(f), NoFilter, FALSE)

\* the request is an unserved getProducts carrying filter f
IsFetch(req, f) == req.op = "getProducts" /\ ~req.served /\ req.arg = Def(f)

\* a step that edits the draft filter
DraftEdited == tempFilters' # tempFilters \/ (sameObject /\ ~sameObject')

\* pressing Apply commits the draft and issues one getProducts carrying it
ApplyFetches ==
    /\ applyFilters
    /\ filters' = tempFilters
    /\ inflight' = Append(inflight, Fetch(tempFilters))

\* editing the draft issues no call and leaves the committed filter alone
EditsStayLocal == [][DraftEdited => inflight' = inflight /\ filters' = filters]_vars

\* C7, as stated: draft edits issue no call and leave the committed filter
\* unchanged, and whenever Apply can be pressed, pressing it commits the
\* draft and issues exactly one getProducts carrying it, pressed again
\* without a draft edit included.
C7_EveryApplyFetches ==
    /\ EditsStayLocal
    /\ []((Usable /\ Len(inflight) < MaxInflight) => ENABLED ApplyFetches)

\* C7, amended: draft edits issue no call and leave the committed filter
\* unchanged; a getProducts is issued from the filter controls only by
\* Apply, one call carrying the draft, which becomes the committed filter;
\* Apply does so when the draft was edited since the last Apply or was
\* never applied, and pressed again without a draft edit it issues nothing.
C7_ApplyAfterEditFetches ==
    /\ EditsStayLocal
    /\ [][(filters' # filters \/ Cardinality(Fetches(inflight')) > Cardinality(Fetches(inflight)))
             => /\ filters' = tempFilters
                /\ tempFilters' = tempFilters
                /\ inflight' = Append(inflight, Fetch(filters'))]_vars
    /\ []((Usable /\ Len(inflight) < MaxInflight /\ ~sameObject) => ENABLED ApplyFetches)
    /\ []((Usable /\ sameObject) => ~ENABLED (applyFilters /\ vars' # vars))

\* a filter on the category was applied and its list is shown: Apply can be
\* pressed again with the draft as it was applied
C7_Witness ==
    /\ Usable
    /\ sameObject
    /\ filters = tempFilters
    /\ filters.category = Def("Home")
    /\ Len(products) = 1

Mutations == SaveOps \cup { "deleteProduct" }

\* the served requests of the given operations that succeeded, or failed
Succeeded(reqs, ops) ==
    { i \in DOMAIN reqs : reqs[i].op \in ops /\ reqs[i].served /\ reqs[i].ok }

Failed(reqs, ops) ==
    { i \in DOMAIN reqs : reqs[i].op \in ops /\ reqs[i].served /\ ~reqs[i].ok }

\* a step in which the caller of a served request of these operations took
\* its result: serving adds to these sets, only the caller's continuation
\* takes from them
SuccessTaken(ops) ==
    Cardinality(Succeeded(inflight', ops)) < Cardinality(Succeeded(inflight, ops))

FailureTaken(ops) ==
    Cardinality(Failed(inflight', ops)) < Cardinality(Failed(inflight, ops))

\* the list s without the products of the given id
Absent(s, id) ==
    LET kept == { i \in DOMAIN s : s[i].id # id }
        Place(i) == Cardinality({ j \in kept : j <= i })
    IN  [k \in 1..Cardinality(kept) |-> s[CHOOSE i \in kept : Place(i) = k]]

DataKept ==
    /\ products' = products
    /\ tempFilters' = tempFilters
    /\ filters' = filters
    /\ productDetails' = productDetails

\* C9: the step that takes the failure of a getProducts, a deleteProduct, a
\* createProduct or an updateProduct leaves the list shown, the draft
\* filter, the committed filter and the form's field values as they were,
\* records an error message and puts the operation's indicator (loading,
\* deletingId, isSaving) back to idle.
C9_FailureKeepsState ==
    [][/\ FailureTaken({"getProducts"})
          => DataKept /\ has(error') /\ ~loading'
       /\ FailureTaken({"deleteProduct"})
          => DataKept /\ has(error') /\ deletingId' = Undefined
       /\ FailureTaken(SaveOps)
          => DataKept /\ has(validationError') /\ ~isSaving']_vars

\* what the user can do with the list's controls
UserAction ==
    \/ \E c \in FilterCategories : handleFilter("category", Def(c))
    \/ applyFilters
    \/ \E id \in Ids : handleProductRemoval(id)

\* C10: the step that takes the failure of a getProducts or a deleteProduct
\* issues no request, and in the state a failure leaves (its message
\* recorded, nothing loading) the user still has a control of the list to
\* act with: the filter controls, Apply, or a Delete button.
C10_ManualRetry ==
    /\ [][FailureTaken({"getProducts", "deleteProduct"})
             => Len(inflight') < Len(inflight)]_vars
    /\ []((has(error) /\ ~loading) => ENABLED UserAction)

---------------------------------------------------------------------------
(* Claims about concurrent requests *)

\* the deletes and the saves on their way: issued, their caller not yet resumed
Deleting == { i \in DOMAIN inflight : inflight[i].op = "deleteProduct" }

\* C11: while a deleteProduct of product p is on its way the Delete button
\* of p is disabled, whatever other deletes are on their way, and while a
\* save of the mounted form is on its way its submit button is disabled.
C11_BusyControlsDisabled ==
    /\ \A i \in Deleting : DeleteDisabled(inflight[i].arg)
    /\ \A i \in Saves(inflight) : inflight[i].alive => isSaving

---------------------------------------------------------------------------
(* Claims about the order and the contents of the list *)

\* C12: in the result of a getProducts that succeeded, whatever its filter
\* and whatever creates, updates and deletes came before, a product that
\* comes before another has a created_at at least as late.
C12_NewestFirst ==
    (lastCall.op = "getProducts" /\ lastCall.ok)
        => \A i, j \in 1..Len(val(lastCall.data)) :
              i < j => val(lastCall.data)[i].created_at >= val(lastCall.data)[j].created_at

\* a getProducts returned two products created at different instants, the
\* older of them updated since
C12_Witness ==
    /\ lastCall.op = "getProducts"
    /\ lastCall.ok
    /\ Len(val(lastCall.data)) = 2
    /\ val(lastCall.data)[1].created_at > val(lastCall.data)[2].created_at
    /\ val(lastCall.data)[2].id \notin DOMAIN drafts

\* C13: once no request is on its way and the list is on screen, the list
\* shown is a result of getProducts for the committed filter against the
\* catalog as it is now.
C13_ListMatchesCatalog ==
    (inflight = <<>> /\ Rendered)
        => products \in ordered(selected(db, Def(filters)))

NumberFields == { "minPrice", "maxPrice", "minRating" }

\* the served getProducts results respect the numeric bounds they carried
WithinBounds ==
    \A i \in Succeeded(inflight, {"getProducts"}) :
        LET f == val(inflight[i].arg)
            data == val(inflight[i].data)
        IN  \A k \in 1..Len(data) :
                /\ has(f.minPrice) => data[k].price >= val(f.minPrice)
                /\ has(f.maxPrice) => data[k].price <= val(f.maxPrice)
                /\ has(f.minRating) => data[k].rating >= val(f.minRating)

\* C14: whenever the filter controls can be used, entering the text of a
\* number v, 0 included, into Min Price, Max Price or Min Rating leaves the
\* draft holding that field equal to v; the getProducts the next Apply
\* issues carries the draft; and a getProducts result holds only products
\* within the bounds its filter carried.
C14_NumberFilterCarried ==
    /\ Usable
          => \A field \in NumberFields : \A text \in NumberTexts :
                ENABLED (/\ handleFilter(field, NumberOrUndefined(text))
                         /\ tempFilters'[field] = Def(Number(text).v))
    /\ (Usable /\ Len(inflight) < MaxInflight /\ ~sameObject) => ENABLED ApplyFetches
    /\ WithinBounds

====
